---------------------------- MODULE Spec2Model ----------------------------
(***************************************************************************)
(* Model of src/show_issues.py: the paginated issue fetch of one           *)
(* repository (get_issues_from_repo) and the aggregation over the          *)
(* repositories of an organization (get_org_issues).                       *)
(*                                                                         *)
(* The remote API is the environment.  One step of the model is one remote *)
(* request together with all the local computation the code performs on    *)
(* its response up to the next request (or up to the return).  The         *)
(* variable log is a history of the requests sent and of the responses     *)
(* received; the code does not read it.                                    *)
(***************************************************************************)
EXTENDS Integers, Sequences, FiniteSets, TLC

VARIABLES
    pc,          \* "main" | "repo_fetch" | "org_fetch" | "done"
    scope,       \* "none" | "repo" | "org" | "store": which entry point runs, against which remote
    max_issues,  \* the cap handed to the entry point
    fetch_max,   \* get_issues_from_repo: its max_issues parameter
    all_issues,  \* get_issues_from_repo: all_issues
    page,        \* get_issues_from_repo: page
    repos,       \* get_org_issues: repos, the decoded repository list
    repo_idx,    \* get_org_issues: position of the for loop in repos
    org_issues,  \* get_org_issues: all_issues
    result,      \* the value returned by the entry point
    fetched,     \* history: the value returned by each get_issues_from_repo call
    log,         \* history: requests sent, with the responses received
    store        \* the record list a well-behaved remote serves slices of

vars == <<pc, scope, max_issues, fetch_max, all_issues, page, repos, repo_idx,
          org_issues, result, fetched, log, store>>

---------------------------------------------------------------------------
(* Bounds of the model *)

\* update timestamps are 1..MaxTime, larger is newer
MaxTime == 2

\* small caps 1..SmallCap are explored beside the caps around the page ceiling
SmallCap == 2

\* an organization lists 0..MaxRepos repositories
MaxRepos == 2

\* the record list of a well-behaved remote has 0..MaxStore records
MaxStore == 4

(* Program constant: the page-size ceiling of min(max_issues, 100) *)
MaxPerPage == 100

Min(a, b) == IF a < b THEN a ELSE b

Times == 1..MaxTime

---------------------------------------------------------------------------
(* Remote records and pages *)

\* An issue-shaped record of the remote.  pull_request stands for the
\* presence of the "pull_request" key in the decoded record.
Record(n, t, pr) == [number |-> n, updated_at |-> t, pull_request |-> pr]

\* What a record of a page can look like, its number apart.
Kinds == [updated_at : Times, pull_request : BOOLEAN]

\* Run lengths from which the pages of an arbitrary remote are built: one
\* record, one record short of the page ceiling, the page ceiling.
RunLens == {1, MaxPerPage - 1, MaxPerPage}

Runs == [kind : Kinds, count : RunLens]

\* A page of like records, numbered by their position in the page.
OneRun(r) == [i \in 1..r.count |-> Record(i, r.kind.updated_at, r.kind.pull_request)]

\* The page followed by one more record.
OneMore(p, k) == Append(p, Record(Len(p) + 1, k.updated_at, k.pull_request))

\* The non-empty pages an arbitrary remote may answer with: a run of like
\* records, or such a run and one more record of any kind.  The remote is
\* not held to the requested page size, to the requested order, or to
\* returning different records on different pages.
Pages == {OneRun(r) : r \in Runs} \cup {OneMore(OneRun(r), k) : r \in Runs, k \in Kinds}

\* In organization scope the pages explored are the runs of one record and
\* of MaxPerPage records, and the pairs of an issue and a pull request of
\* one update time.
OrgPages ==
    {OneRun(r) : r \in {q \in Runs : q.count \in {1, MaxPerPage}}}
        \cup {OneMore(OneRun([kind |-> k, count |-> 1]), [k EXCEPT !.pull_request = ~@]) :
                 k \in Kinds}

PagesOf(sc) == IF sc = "org" THEN OrgPages ELSE Pages

\* The caps explored: small ones, and those at and just above one and two
\* full pages.
Caps == (1..SmallCap) \cup {MaxPerPage, MaxPerPage + 1, 2 * MaxPerPage + 1}

OrgCaps == (1..SmallCap) \cup {MaxPerPage + 1}

\* s is ordered by update time, newest first
Descending(s) == \A i \in 1..(Len(s) - 1) : s[i].updated_at >= s[i + 1].updated_at

\* The record lists of a well-behaved remote: sorted by update time,
\* descending (sort=updated, direction=desc), numbered by position.
Stores ==
    { [i \in 1..Len(k) |-> Record(i, k[i].updated_at, k[i].pull_request)] :
        k \in { q \in UNION { [1..n -> Kinds] : n \in 0..MaxStore } : Descending(q) } }

\* Page p (from 1) of s in pages of pp records
Slice(s, p, pp) == SubSeq(s, Min((p - 1) * pp, Len(s)) + 1, Min(p * pp, Len(s)))

---------------------------------------------------------------------------
(* get_issues_from_repo *)

\* params["per_page"]
PerPage(max) == Min(max, MaxPerPage)

per_page == PerPage(fetch_max)

\* mutation: the comprehension keeps every record
KeepsEveryRecord(issue) == TRUE

\* the filter of the list comprehension: "pull_request" not in issue
NotPullRequest(issue) == ~issue.pull_request

\* issues = [issue for issue in issues if "pull_request" not in issue]
FilterPullRequests(issues) == SelectSeq(issues, NotPullRequest)

\* mutation: the page is put in front of the accumulation
ExtendAtFront(acc, issues) == issues \o acc

\* mutation: the page is added before and after the filter
ExtendTwice(acc, issues) == acc \o issues \o issues

\* all_issues.extend(issues)
Extend(acc, issues) == acc \o issues

\* mutation: the return without the slice
NoTruncate(s, n) == s

\* s[:n]
Truncate(s, n) == SubSeq(s, 1, Min(n, Len(s)))

\* mutation: the short-page break left out
NeverShort(issues, pp) == FALSE

\* if len(issues) < params["per_page"]: break
ShortPage(issues, pp) == Len(issues) < pp

\* while len(all_issues) < max_issues
LoopCondition(acc, max) == Len(acc) < max

---------------------------------------------------------------------------
(* get_org_issues *)

\* mutation: the break one issue early
BudgetReachedEarly(acc, max) == Len(acc) + 1 >= max

\* if len(all_issues) >= max_issues: break
BudgetReached(acc, max) == Len(acc) >= max

\* mutation: the remaining budget handed down instead of the cap
RemainingBudget(max, acc) == max - Len(acc)

\* the cap get_org_issues hands to get_issues_from_repo
RepoCap(max, acc) == max

RECURSIVE SortFrom(_, _)
SortFrom(s, t) ==
    IF t < 1 THEN <<>>
    ELSE SelectSeq(s, LAMBDA x : x.updated_at = t) \o SortFrom(s, t - 1)

\* mutation: the sort left out
NoSort(s) == s

\* all_issues.sort(key=lambda x: x["updated_at"], reverse=True): list.sort
\* is stable, and with reverse=True records of equal key keep their order.
SortByUpdated(s) == SortFrom(s, MaxTime)

\* The for loop of get_org_issues from the return of one
\* get_issues_from_repo call to the next call, or to the return.
OrgContinue(issues) ==
    LET acc == Extend(org_issues, issues) IN
    /\ fetched' = Append(fetched, issues)
    /\ IF BudgetReached(acc, max_issues) \/ repo_idx = Len(repos)
       THEN /\ org_issues' = SortByUpdated(acc)
            /\ result' = Truncate(SortByUpdated(acc), max_issues)
            /\ pc' = "done"
            /\ UNCHANGED <<repo_idx, fetch_max>>
       ELSE /\ org_issues' = acc
            /\ repo_idx' = repo_idx + 1
            /\ fetch_max' = RepoCap(max_issues, acc)
            /\ pc' = "org_fetch"
            /\ UNCHANGED result

\* return all_issues[:max_issues] of get_issues_from_repo, to its caller,
\* the loop left with the accumulation acc and the page counter at pg
Return(acc, pg) ==
    LET ret == Truncate(acc, fetch_max) IN
    IF scope = "org"
    THEN /\ OrgContinue(ret)
         /\ all_issues' = IF pc' = "done" THEN acc ELSE <<>>
         /\ page' = IF pc' = "done" THEN pg ELSE 1
    ELSE /\ result' = ret
         /\ fetched' = Append(fetched, ret)
         /\ all_issues' = acc
         /\ page' = pg
         /\ pc' = "done"
         /\ UNCHANGED <<repo_idx, org_issues, fetch_max>>

\* One iteration of the while loop: the request of page `page` answered
\* with status 200 (ok) or not, and with the decoded body; then the loop
\* test, and the return when the loop is left.
Iteration(ok, body) ==
    LET issues == FilterPullRequests(body)
        break  == ~ok \/ body = <<>> \/ ShortPage(issues, per_page)
        acc    == IF ok /\ body # <<>> THEN Extend(all_issues, issues) ELSE all_issues
        pg     == IF break THEN page ELSE page + 1
    IN
    /\ pc \in {"repo_fetch", "org_fetch"}
    /\ LoopCondition(all_issues, fetch_max)
    /\ log' = Append(log, [kind |-> "issues", repo |-> repo_idx, page |-> page,
                           per_page |-> per_page, ok |-> ok, body |-> body])
    /\ IF break \/ ~LoopCondition(acc, fetch_max)
       THEN Return(acc, pg)
       ELSE /\ all_issues' = acc
            /\ page' = pg
            /\ UNCHANGED <<pc, repo_idx, org_issues, result, fetched, fetch_max>>
    /\ UNCHANGED <<scope, max_issues, repos, store>>

---------------------------------------------------------------------------
(* Actions *)

Start(caps, stores) ==
    /\ pc = "main"
    /\ scope = "none"
    /\ max_issues \in caps
    /\ fetch_max = 0
    /\ all_issues = <<>>
    /\ page = 1
    /\ repos = <<>>
    /\ repo_idx = 0
    /\ org_issues = <<>>
    /\ result = <<>>
    /\ fetched = <<>>
    /\ log = <<>>
    /\ store \in stores

\* Before main calls get_issues_from_repo, the remote arbitrary.
Init == Start(Caps, {<<>>})

\* Before main calls get_org_issues, the remote arbitrary.
OrgInit == Start(OrgCaps, {<<>>})

\* Before main calls get_issues_from_repo, the remote well-behaved.
StoreInit == Start(1..SmallCap, Stores)

\* main calls get_issues_from_repo(session, OWNER, REPOSITORY, STATE,
\* MAX_ISSUES); the cap is at least 1, and the while loop is entered
CallRepo ==
    /\ pc = "main"
    /\ scope' = "repo"
    /\ fetch_max' = max_issues
    /\ all_issues' = <<>>
    /\ page' = 1
    /\ pc' = "repo_fetch"
    /\ UNCHANGED <<max_issues, repos, repo_idx, org_issues, result, fetched, log, store>>

\* the same call, the remote serving the record list store
CallRepoStore ==
    /\ pc = "main"
    /\ scope' = "store"
    /\ fetch_max' = max_issues
    /\ all_issues' = <<>>
    /\ page' = 1
    /\ pc' = "repo_fetch"
    /\ UNCHANGED <<max_issues, repos, repo_idx, org_issues, result, fetched, log, store>>

\* mutation: the status check of the repository-list request left out, the
\* error body iterated as a list of one repository
CallOrgFailIgnored ==
    /\ pc = "main"
    /\ scope' = "org"
    /\ log' = Append(log, [kind |-> "repos", repo |-> 0, page |-> 1,
                           per_page |-> MaxPerPage, ok |-> FALSE, body |-> <<>>])
    /\ repos' = <<1>>
    /\ repo_idx' = 1
    /\ fetch_max' = max_issues
    /\ pc' = "org_fetch"
    /\ UNCHANGED <<max_issues, all_issues, page, org_issues, result, fetched, store>>

\* get_org_issues: the repository-list request answered with a status other
\* than 200; return []
CallOrgFail ==
    /\ pc = "main"
    /\ scope' = "org"
    /\ log' = Append(log, [kind |-> "repos", repo |-> 0, page |-> 1,
                           per_page |-> MaxPerPage, ok |-> FALSE, body |-> <<>>])
    /\ result' = <<>>
    /\ pc' = "done"
    /\ UNCHANGED <<max_issues, fetch_max, all_issues, page, repos, repo_idx,
                   org_issues, fetched, store>>

\* get_org_issues: the repository-list request answered with status 200 and
\* n repositories; the for loop up to its first get_issues_from_repo call
CallOrgOk ==
    /\ pc = "main"
    /\ scope' = "org"
    /\ log' = Append(log, [kind |-> "repos", repo |-> 0, page |-> 1,
                           per_page |-> MaxPerPage, ok |-> TRUE, body |-> <<>>])
    /\ \E n \in 0..MaxRepos :
          /\ repos' = [i \in 1..n |-> i]
          /\ IF n = 0
             THEN /\ result' = Truncate(SortByUpdated(<<>>), max_issues)
                  /\ pc' = "done"
                  /\ UNCHANGED <<repo_idx, fetch_max>>
             ELSE /\ repo_idx' = 1
                  /\ fetch_max' = RepoCap(max_issues, <<>>)
                  /\ pc' = "org_fetch"
                  /\ UNCHANGED result
    /\ all_issues' = <<>>
    /\ page' = 1
    /\ UNCHANGED <<max_issues, org_issues, fetched, store>>

\* response.status_code != 200
IssuesFail ==
    /\ scope \in {"repo", "org"}
    /\ Iteration(FALSE, <<>>)

\* status 200, the body an empty list
IssuesEmpty ==
    /\ scope \in {"repo", "org"}
    /\ Iteration(TRUE, <<>>)

\* status 200, the body a non-empty list
IssuesPage ==
    /\ scope \in {"repo", "org"}
    /\ \E body \in PagesOf(scope) : Iteration(TRUE, body)

\* status 200, the body the slice of store that the request asks for
IssuesSlice ==
    /\ scope = "store"
    /\ Iteration(TRUE, Slice(store, page, per_page))

Next == CallRepo \/ IssuesFail \/ IssuesEmpty \/ IssuesPage

OrgNext == CallOrgFail \/ CallOrgOk \/ IssuesFail \/ IssuesEmpty \/ IssuesPage

StoreNext == CallRepoStore \/ IssuesSlice

\* get_issues_from_repo against an arbitrary remote
Spec == Init /\ [][Next]_vars

\* get_org_issues against an arbitrary remote
OrgSpec == OrgInit /\ [][OrgNext]_vars

\* get_issues_from_repo against a well-behaved remote
StoreSpec == StoreInit /\ [][StoreNext]_vars

\* Every remote call returns or fails, and the code between two calls runs
\* to the next call.
FairSpec == Spec /\ WF_vars(Next)

---------------------------------------------------------------------------
(* Vocabulary of the properties, over the history of requests *)

\* the requests of kind k sent so far, in order
Sent(k) == SelectSeq(log, LAMBDA e : e.kind = k)

\* the issue requests sent for repository r (0 outside organization scope)
SentFor(r) == SelectSeq(log, LAMBDA e : e.kind = "issues" /\ e.repo = r)

\* the records of s without the pull-request back-reference
Issues(s) == SelectSeq(s, LAMBDA x : ~x.pull_request)

RECURSIVE Bodies(_)
\* the pages of the requests es, concatenated in request order
Bodies(es) == IF es = <<>> THEN <<>> ELSE Bodies(SubSeq(es, 1, Len(es) - 1)) \o es[Len(es)].body

RECURSIVE Flat(_)
\* the sequences of ss, concatenated in order
Flat(ss) == IF ss = <<>> THEN <<>> ELSE Flat(SubSeq(ss, 1, Len(ss) - 1)) \o ss[Len(ss)]

\* the smallest k with k * d >= n
CeilDiv(n, d) == (n + d - 1) \div d

\* the records of s updated at t, in the order of s
At(s, t) == SelectSeq(s, LAMBDA x : x.updated_at = t)

Done == pc = "done"

---------------------------------------------------------------------------
(* C1: get_issues_from_repo returns at most cap issues, whatever the       *)
(* remote answers.                                                         *)
C1_AtMostCap == Done => Len(result) <= max_issues

\* the accumulation went past the cap and the return cut it
C1_Witness ==
    /\ Done
    /\ Len(all_issues) > max_issues
    /\ Len(result) = max_issues
    /\ Len(log) = 2

(* C2: no issue returned by get_issues_from_repo (each value in fetched)   *)
(* or by get_org_issues (result) has the pull-request field.               *)
C2_NoPullRequests ==
    /\ \A i \in 1..Len(fetched) : \A j \in 1..Len(fetched[i]) : ~fetched[i][j].pull_request
    /\ \A j \in 1..Len(result) : ~result[j].pull_request

\* two repositories were fetched, a page mixed pull requests and issues,
\* and issues of both repositories were returned
C2_Witness ==
    /\ Done
    /\ Len(fetched) = 2
    /\ fetched[1] # <<>>
    /\ fetched[2] # <<>>
    /\ Len(result) = max_issues
    /\ \E k \in 1..Len(log) :
          /\ \E j \in 1..Len(log[k].body) : log[k].body[j].pull_request
          /\ \E j \in 1..Len(log[k].body) : ~log[k].body[j].pull_request

(* C3: the sequence get_org_issues returns is ordered by update time,      *)
(* newest first, and has at most cap issues.                               *)
C3_SortedAtMostCap == Done => Descending(result) /\ Len(result) <= max_issues

\* the fetches returned, together, more than cap issues out of order
C3_Witness ==
    /\ Done
    /\ Len(fetched) = 2
    /\ ~Descending(Flat(fetched))
    /\ Len(Flat(fetched)) > max_issues
    /\ Len(result) = max_issues

(* C4: when the repository-list request fails, get_org_issues returns the  *)
(* empty sequence and sends no issue request.                              *)
C4_ListFailure ==
    (\E k \in 1..Len(log) : log[k].kind = "repos" /\ ~log[k].ok)
        => Done /\ result = <<>> /\ Sent("issues") = <<>> /\ Len(log) = 1

\* the repository-list request failed
C4_Witness == Done /\ Len(log) = 1 /\ log[1].kind = "repos" /\ ~log[1].ok

(* C5: when request k of get_issues_from_repo fails, it is the last        *)
(* request, and the function returns the non-pull-request records of the   *)
(* pages 1..k-1, in page order.                                            *)
C5_FailureKeepsPrefix ==
    \A k \in 1..Len(log) :
        ~log[k].ok =>
            /\ k = Len(log)
            /\ Done
            /\ result = Issues(Bodies(SubSeq(log, 1, k - 1)))

\* the third request failed after two pages that differ, one of them with a
\* pull request
C5_Witness ==
    /\ Done
    /\ Len(log) = 3
    /\ ~log[3].ok
    /\ log[1].body # log[2].body
    /\ \E j \in 1..Len(log[1].body) : log[1].body[j].pull_request
    /\ Len(result) = 2 * MaxPerPage

(* C6 as stated: when every page is ordered by update time, newest first,  *)
(* the returned sequence is.                                               *)
C6_PerPageOrder ==
    (Done /\ \A k \in 1..Len(log) : Descending(log[k].body)) => Descending(result)

(* C6 amended: when the pages, concatenated in request order, are ordered  *)
(* by update time, newest first, the returned sequence is.                 *)
C6_Sorted == (Done /\ Descending(Bodies(log))) => Descending(result)

\* two ordered pages in order, with a pull request filtered out, a change
\* of update time in the result, and the result cut to cap
C6_Witness ==
    /\ Done
    /\ Len(log) = 2
    /\ Descending(Bodies(log))
    /\ \E j \in 1..Len(log[2].body) : log[2].body[j].pull_request
    /\ Len(all_issues) > max_issues
    /\ Len(result) = max_issues
    /\ result[1].updated_at > result[Len(result)].updated_at

(* C7: against a well-behaved remote with at least cap non-pull-request    *)
(* records, get_issues_from_repo returns exactly cap issues.               *)
C7_ExactlyCap ==
    (Done /\ Len(Issues(store)) >= max_issues) => Len(result) = max_issues

(* C8: get_org_issues fetches the repositories in listing order, each with *)
(* the full cap, starts the fetch of repository i only while the results   *)
(* of repositories 1..i-1 hold fewer than cap issues, and sorts the        *)
(* concatenation of everything the fetches returned.                       *)
C8_OrgFetchOrder ==
    LET reqs == Sent("issues") IN
    /\ \A k \in 1..Len(reqs) :
          /\ reqs[k].repo = IF k = 1 THEN 1 ELSE reqs[k - 1].repo + (IF reqs[k].page = 1 THEN 1 ELSE 0)
          /\ reqs[k].repo \in 1..Len(repos)
          /\ reqs[k].per_page = IF max_issues < MaxPerPage THEN max_issues ELSE MaxPerPage
          /\ Len(Flat(SubSeq(fetched, 1, reqs[k].repo - 1))) < max_issues
    /\ pc = "org_fetch" => fetch_max = max_issues /\ Len(fetched) = repo_idx - 1
    /\ (Done /\ Sent("repos")[1].ok) =>
          /\ \A t \in Times : At(org_issues, t) = At(Flat(fetched), t)
          /\ Len(fetched) = Len(repos) \/ Len(Flat(fetched)) >= max_issues

\* the first of two repositories filled the cap and the second was never
\* requested
C8_Witness ==
    /\ Done
    /\ Len(repos) = 2
    /\ Len(fetched) = 1
    /\ SentFor(2) = <<>>
    /\ Len(result) = max_issues
    /\ max_issues > 1

(* C9: in organization scope a failed issue request ends only the fetch of *)
(* its repository: what that fetch had accumulated is kept, the next       *)
(* repository is fetched while the total is below cap, and the result is   *)
(* the sorted one.                                                         *)
C9_FailureIsLocal ==
    \A k \in 1..Len(log) :
        (log[k].kind = "issues" /\ ~log[k].ok) =>
            LET i == log[k].repo IN
            /\ Len(fetched) >= i
            /\ fetched[i] = Issues(Bodies(SentFor(i)))
            /\ SentFor(i)[Len(SentFor(i))] = log[k]
            /\ (i < Len(repos) /\ Len(Flat(SubSeq(fetched, 1, i))) < max_issues)
                  => SentFor(i + 1) # <<>> \/ (pc = "org_fetch" /\ repo_idx = i + 1)
            /\ Done =>
                  /\ Descending(result)
                  /\ Len(result) = IF Len(Flat(fetched)) < max_issues
                                   THEN Len(Flat(fetched)) ELSE max_issues

\* the fetch of the first repository failed on its second page, the second
\* repository was fetched, and issues of both are returned
C9_Witness ==
    /\ Done
    /\ Len(SentFor(1)) = 2
    /\ ~SentFor(1)[2].ok
    /\ fetched[1] # <<>>
    /\ Len(fetched) = 2
    /\ fetched[2] # <<>>
    /\ Len(result) = max_issues

\* the requests so far are those of the pages 1, 2, 3, ... in turn, at most
\* ceil(cap / min(cap, 100)) of them, and one when the fetch is over and
\* cap <= 100
C10_Requests ==
    /\ \A k \in 1..Len(log) : log[k].page = k /\ log[k].kind = "issues"
    /\ Len(log) <= CeilDiv(max_issues, IF max_issues < MaxPerPage THEN max_issues ELSE MaxPerPage)
    /\ (Done /\ max_issues <= MaxPerPage) => Len(log) = 1

(* C10: get_issues_from_repo terminates; it requests the pages 1, 2, 3,    *)
(* ... in turn, each once, at most ceil(cap / min(cap, 100)) of them, and  *)
(* exactly one when cap <= 100.                                            *)
C10_Terminates == []C10_Requests /\ <>Done

\* three requests were sent, the most a cap of two pages and one allows
C10_Witness == Done /\ Len(log) = 3 /\ max_issues = 2 * MaxPerPage + 1 /\ log[3].ok

=============================================================================
